---- MODULE Spec2Model ----
(***************************************************************************)
(* Model of blueprints/mcp.py: the token gate (token_required) and the     *)
(* JSON-RPC router (mcp_endpoint) of the MCP endpoint.                     *)
(*                                                                         *)
(* A request is served by a worker in three steps, as the code does it:    *)
(* the token lookup, the user lookup (a second database session) and the   *)
(* endpoint body.  The database (mcp_tokens, users) is owned by the rest   *)
(* of the application and changes between the steps.                       *)
(***************************************************************************)
EXTENDS Integers, Sequences, FiniteSets, TLC

VARIABLES
    mcp_tokens,   \* rows of table mcp_tokens: [token, user_id]
    users,        \* rows of table users: [id, username]
    pc,           \* per worker: "idle", "token_lookup", "user_lookup", "endpoint", "done"
    req,          \* per worker: the request being served [token, body]
    token_data,   \* per worker: the mcp_tokens row fetched by the gate
    g_user,       \* per worker: flask g.user of the request context
    parsed,       \* per worker: request.get_json() has been called
    calls,        \* per worker: the tool functions called for the request, and how they ended
    resp,         \* per worker: the response returned
    g_kind,       \* per worker: the type of the object bound to g.user ("Row", "SimpleNamespace")
    audiobook_tasks, \* rows of the audiobook task table: [task_id, user_id, book_id, library_type, status]
    history,      \* observer: what the requests answered so far were
    remembered,   \* observer: one earlier request and the answer it got
    schema_params, \* a parameter spec handed to get_input_schema
    schema        \* the input schema get_input_schema returned for it

vars == <<mcp_tokens, users, pc, req, token_data, g_user, parsed, calls, resp,
          g_kind, audiobook_tasks, history, remembered, schema_params, schema>>

----------------------------------------------------------------------------
(* Bounds of the model *)

MaxTokLen == 2

Workers == {"w1", "w2"}

\* The worker that serves requests one at a time in Spec.
SeqWorkers == {"w1"}

----------------------------------------------------------------------------
(* Token strings: sequences of characters, so that str.strip() is computed *)

Chars == {" ", "a"}

TokenStrings == UNION {[1..n -> Chars] : n \in 0..MaxTokLen}

RECURSIVE lstrip(_)
lstrip(s) == IF s # <<>> /\ Head(s) = " " THEN lstrip(Tail(s)) ELSE s

RECURSIVE rstrip(_)
rstrip(s) ==
    IF s # <<>> /\ s[Len(s)] = " " THEN rstrip(SubSeq(s, 1, Len(s) - 1)) ELSE s

\* A slip: the token is looked up as supplied.
strip_none(s) == s

\* str.strip(): leading and trailing whitespace removed.
strip(s) == rstrip(lstrip(s))

\* request.args.get('token'): None when the parameter is absent.
NoToken == [present |-> FALSE, value |-> <<>>]

TokenArgs == {NoToken} \cup {[present |-> TRUE, value |-> s] : s \in TokenStrings}

----------------------------------------------------------------------------
(* JSON values: a type tag and the value's text *)

J(t, v) == [t |-> t, v |-> v]

Absent == J("absent", "")

JStr(s) == J("str", s)

\* Python truthiness of a value obtained with dict.get (absent gives None).
Falsy(j) ==
    \/ j.t \in {"absent", "null"}
    \/ j.t = "str" /\ j.v = ""
    \/ j.t = "int" /\ j.v = "0"
    \/ j.t \in {"list", "object"} /\ j.v \in {"[]", "{}"}

\* Lists and dicts are unhashable: `x in TOOLS` raises TypeError for them.
Hashable(j) == j.t \notin {"list", "object"}

\* str() of the value, as an f-string formats it.
Str(j) == IF j.t \in {"absent", "null"} THEN "None" ELSE j.v

----------------------------------------------------------------------------
(* The tool registry *)

P(n, t) == [name |-> n, type |-> t]

Tool(n, ps) == [name |-> n, params |-> ps]

\* TOOLS, in insertion order; params in the order of the dict literal.
TOOLS ==
    << Tool("generate_audiobook", <<P("book_id", "int"), P("library_type", "str")>>),
       Tool("get_audiobook_generation_status", <<P("task_id", "str")>>),
       Tool("get_audiobook_status_by_book", <<P("book_id", "int"), P("library_type", "str")>>),
       Tool("search_calibre_books", <<P("search_expression", "str"), P("limit", "int")>>),
       Tool("get_recent_books", <<P("library_type", "str"), P("limit", "int")>>),
       Tool("get_book_details", <<P("library_type", "str"), P("book_id", "int")>>),
       Tool("push_calibre_book_to_anx", <<P("book_id", "int")>>),
       Tool("push_anx_book_to_calibre", <<P("book_id", "int")>>),
       Tool("send_calibre_book_to_kindle", <<P("book_id", "int")>>),
       Tool("get_table_of_contents", <<P("library_type", "str"), P("book_id", "int")>>),
       Tool("get_chapter_content",
            <<P("library_type", "str"), P("book_id", "int"), P("chapter_number", "int")>>),
       Tool("get_entire_book_content", <<P("library_type", "str"), P("book_id", "int")>>),
       Tool("get_word_count_statistics", <<P("library_type", "str"), P("book_id", "int")>>),
       Tool("get_user_reading_stats", <<P("time_range", "str")>>) >>

ToolNames == {TOOLS[i].name : i \in 1..Len(TOOLS)}

\* TOOLS[tool_name]
ToolInfo(n) == TOOLS[CHOOSE i \in 1..Len(TOOLS) : TOOLS[i].name = n]

\* tool_info.get('params', {}).keys()
ExpectedParams(n) == {ToolInfo(n).params[i].name : i \in 1..Len(ToolInfo(n).params)}

\* Parameters that the handler's signature gives a default value.
DefaultedParams(n) ==
    IF n \in {"search_calibre_books", "get_recent_books"} THEN {"limit"} ELSE {}

\* Handlers whose body is wrapped in try/except Exception and returns {"error": ...}.
CatchingTools ==
    {"get_table_of_contents", "get_chapter_content", "get_entire_book_content",
     "get_word_count_statistics"}

JsonType(t) ==
    CASE t = "int" -> "integer"
      [] t = "float" -> "number"
      [] t = "bool" -> "boolean"
      [] OTHER -> "string"

\* A variant: the last parameter is described but not required.
get_input_schema_lastOptional(params) ==
    [type |-> "object",
     properties |-> [i \in 1..Len(params) |->
                        [name |-> params[i].name, type |-> JsonType(params[i].type),
                         description |-> ""]],
     required |-> [i \in 1..(Len(params) - 1) |-> params[i].name]]

\* get_input_schema(params): properties as the sequence of (name, type) in
\* insertion order, required as the list of names.
get_input_schema(params) ==
    [type |-> "object",
     properties |-> [i \in 1..Len(params) |->
                        [name |-> params[i].name, type |-> JsonType(params[i].type),
                         description |-> ""]],
     required |-> [i \in 1..Len(params) |-> params[i].name]]

\* No schema generated.
NoSchema == [type |-> "none", properties |-> <<>>, required |-> <<>>]

\* The tool_list comprehension of tools/list.
ToolList ==
    [i \in 1..Len(TOOLS) |->
        [name |-> TOOLS[i].name, inputSchema |-> get_input_schema(TOOLS[i].params)]]

----------------------------------------------------------------------------
(* Responses *)

NoResult == [type |-> "none", isError |-> FALSE, content |-> <<>>, tools |-> <<>>]

NoResponse ==
    [kind |-> "none", status |-> 0, plain |-> "", id |-> Absent, code |-> 0,
     message |-> <<>>, result |-> NoResult]

\* return jsonify({'error': msg}), status      (token_required)
PlainError(msg, status) == [NoResponse EXCEPT !.kind = "plain", !.status = status, !.plain = msg]

\* A slip: return "" without the status, which Flask sends as 200.
NoContent_noStatus == [NoResponse EXCEPT !.kind = "empty", !.status = 200]

\* return "", 204
NoContent == [NoResponse EXCEPT !.kind = "empty", !.status = 204]

\* return jsonify({"jsonrpc": "2.0", "error": {code, message}, "id": id}), status
RpcError(code, message, id, status) ==
    [NoResponse EXCEPT !.kind = "rpc", !.status = status, !.code = code,
                       !.message = message, !.id = id]

\* return jsonify({"jsonrpc": "2.0", "id": id, "result": result})   (status 200)
RpcResult(id, result) ==
    [NoResponse EXCEPT !.kind = "rpc", !.status = 200, !.id = id, !.result = result]

HasResult(r) == r.kind = "rpc" /\ r.result.type # "none"

HasError(r) == r.kind = "rpc" /\ r.code # 0

SuccessStatus(r) == r.status \in 200..299

\* A request id of None is serialised as JSON null.
NullId == J("null", "null")

ReqId(j) == IF j.t = "absent" THEN NullId ELSE j

FixedResult(type) == [NoResult EXCEPT !.type = type]

----------------------------------------------------------------------------
(* Tool handlers, as the endpoint sees them: a call returns a value or raises *)

NoTask ==
    [task_id |-> 0, user_id |-> 0, book_id |-> Absent, library_type |-> Absent,
     status |-> "none"]

\* nested: the handler assigned g.user inside a nested request context.
\* task: the task row the handler returned, NoTask when it returned none.
Returned(v) ==
    [raised |-> FALSE, value |-> v, message |-> "", nested |-> FALSE, task |-> NoTask]

Raised(m) ==
    [raised |-> TRUE, value |-> "", message |-> m, nested |-> FALSE, task |-> NoTask]

\* Whether a request context pushed inside a request shares the application
\* context, and so g, of that request: it depends on the Flask release.
AppContexts == {"shared", "fresh"}

\* What the collaborators (library, database, converters) do during one call.
Collab == {"ok", "raise"}

ValidLibrary(fargs) ==
    "library_type" \in DOMAIN fargs /\ fargs["library_type"] \in {JStr("calibre"), JStr("anx")}

\* The newest task row of the user for the book, NoTask when there is none.
get_latest_task_for_book(user_id, book_id, library_type) ==
    LET rows == {r \in audiobook_tasks :
                    /\ r.user_id = user_id /\ r.book_id = book_id
                    /\ r.library_type = library_type}
    IN  IF rows = {} THEN NoTask
        ELSE CHOOSE r \in rows : \A q \in rows : q.task_id <= r.task_id

\* `existing_task and existing_task['status'] not in ['error', 'completed']`
InProgress(existing_task) ==
    existing_task # NoTask /\ existing_task.status \notin {"error", "completed"}

\* Lines 246-278: the nested context, g.user assigned in it, and the route,
\* which submits the job or raises.
SubmitJob(collab) ==
    IF collab = "raise"
    THEN [Raised("collaborator failed") EXCEPT !.nested = TRUE]
    ELSE [Returned("data") EXCEPT !.nested = TRUE]

\* generate_audiobook: answers already_in_progress for a task neither failed
\* nor completed; otherwise pushes a test request context, assigns g.user in
\* it and calls the route, which submits the job or raises.
generate_audiobook(fargs, user, collab) ==
    LET existing_task == get_latest_task_for_book(user.id, fargs["book_id"],
                                                  fargs["library_type"])
    IN  IF InProgress(existing_task)
        THEN Returned("already_in_progress")
        ELSE SubmitJob(collab)

\* Task ids as the strings a request names them by.
TaskIdStrings == <<"1", "2", "3", "4">>

\* The task row with the id the argument names, NoTask when there is none.
get_audiobook_task_by_id(task_id) ==
    LET rows == {r \in audiobook_tasks :
                    \E i \in DOMAIN TaskIdStrings :
                        i = r.task_id /\ task_id = JStr(TaskIdStrings[i])}
    IN  IF rows = {} THEN NoTask ELSE CHOOSE r \in rows : TRUE

\* get_audiobook_generation_status: 'Task not found.' for no task; for a task
\* of the anx library owned by another user 'Task not found for this user.';
\* otherwise dict(task).
get_audiobook_generation_status(fargs, user, collab) ==
    LET task == get_audiobook_task_by_id(fargs["task_id"])
    IN  IF collab = "raise" THEN Raised("collaborator failed")
        ELSE IF task = NoTask THEN Returned("error_value")
        ELSE IF task.library_type = JStr("anx") /\ task.user_id # user.id
        THEN Returned("error_value")
        ELSE [Returned("task") EXCEPT !.task = task]

\* The body of the tool function bound to name n, with its arguments bound.
ToolBody(n, fargs, user, collab) ==
    CASE n = "generate_audiobook" -> generate_audiobook(fargs, user, collab)
      [] n = "get_audiobook_generation_status" ->
            get_audiobook_generation_status(fargs, user, collab)
      [] n \in {"get_recent_books", "get_book_details"} ->
            IF ~ValidLibrary(fargs) THEN Returned("error_value")
            ELSE IF collab = "raise" THEN Raised("collaborator failed")
            ELSE Returned("data")
      [] n \in CatchingTools ->
            IF collab = "raise" \/ ~ValidLibrary(fargs) THEN Returned("error_value")
            ELSE Returned("data")
      [] OTHER ->
            IF collab = "raise" THEN Raised("collaborator failed") ELSE Returned("data")

\* tool_function(**filtered_arguments): binding fails with TypeError when a
\* parameter without a default is not supplied.
CallTool(n, fargs, user, collab) ==
    IF ~((ExpectedParams(n) \ DefaultedParams(n)) \subseteq DOMAIN fargs)
    THEN Raised("missing required positional argument")
    ELSE ToolBody(n, fargs, user, collab)

----------------------------------------------------------------------------
(* mcp_endpoint *)

Out(r, c) == [resp |-> r, calls |-> c]

TextContent(text) == <<[type |-> "text", text |-> text]>>

InvalidRequestResponse == RpcError(-32600, <<"Invalid Request">>, NullId, 400)

\* A slip: the 404 status is left out.
MethodNotFoundResponse_noStatus(req_id) ==
    [RpcError(-32601, <<"Method not found">>, req_id, 404) EXCEPT !.status = 200]

MethodNotFoundResponse(req_id) == RpcError(-32601, <<"Method not found">>, req_id, 404)

\* A slip: the unknown-tool error is built with id None.
UnknownToolResponse_nullId(req_id, tool_name) ==
    RpcError(-32602, <<"Unknown tool: ", Str(tool_name)>>, J("null", "null"), 404)

UnknownToolResponse(req_id, tool_name) ==
    RpcError(-32602, <<"Unknown tool: ", Str(tool_name)>>, req_id, 404)

\* A slip: the 500 status is left out.
InternalErrorResponse_noStatus(e) ==
    [RpcError(-32603, <<"Internal error: ", e>>, NullId, 500) EXCEPT !.status = 200]

\* The outer `except Exception as e` of mcp_endpoint.
InternalErrorResponse(e) == RpcError(-32603, <<"Internal error: ", e>>, NullId, 500)

\* The inner try's normal return: result_text = json.dumps(result, ...).
ToolSuccessResponse(req_id, value) ==
    RpcResult(req_id, [NoResult EXCEPT !.type = "tool", !.isError = FALSE,
                                       !.content = TextContent(<<value>>)])

\* A slip: the failure is reported as a successful tool result.
ToolErrorResponse_notFlagged(req_id, tool_name, e) ==
    RpcResult(req_id, [NoResult EXCEPT !.type = "tool", !.isError = FALSE,
                          !.content = TextContent(<<"Error executing tool ", tool_name, ": ", e>>)])

\* The inner `except Exception as e`.
ToolErrorResponse(req_id, tool_name, e) ==
    RpcResult(req_id, [NoResult EXCEPT !.type = "tool", !.isError = TRUE,
                          !.content = TextContent(<<"Error executing tool ", tool_name, ": ", e>>)])

\* data == {}: an object without any member.
EmptyObject(body) ==
    /\ body.jsonrpc = Absent /\ body.id = Absent /\ body.method = Absent
    /\ body.params.shape = "absent"

\* A slip: the version is required to be present but is not compared.
InvalidRequest_noVersionTest(body) == EmptyObject(body) \/ body.jsonrpc = Absent

\* `not data or 'jsonrpc' not in data or data['jsonrpc'] != '2.0'`, data a dict.
InvalidRequest(body) ==
    EmptyObject(body) \/ body.jsonrpc = Absent \/ body.jsonrpc # JStr("2.0")

\* A variant: get_json(silent=True), a body that is not JSON parses to None.
DataCheck_silent(body) ==
    CASE body.shape \in {"malformed", "null", "emptylist"} -> "invalid"
      [] body.shape = "list" -> "invalid"
      [] body.shape \in {"list_jsonrpc", "number"} -> "raise"
      [] OTHER -> IF InvalidRequest(body) THEN "invalid" ELSE "ok"

\* request.get_json() and the envelope test on whatever it returned:
\* "raise" (an exception reaches the outer except), "invalid" or "ok".
DataCheck(body) ==
    CASE body.shape = "malformed" -> "raise"                 \* get_json() raises
      [] body.shape \in {"null", "emptylist"} -> "invalid"   \* not data
      [] body.shape = "list" -> "invalid"                    \* 'jsonrpc' not in [1]
      [] body.shape = "list_jsonrpc" -> "raise"              \* ['jsonrpc']['jsonrpc']
      [] body.shape = "number" -> "raise"                    \* 'jsonrpc' not in 5
      [] OTHER -> IF InvalidRequest(body) THEN "invalid" ELSE "ok"

\* A slip: only `tool_name not in TOOLS`, without the `not tool_name` test.
UnknownToolCheck_noFalsyTest(tool_name) ==
    IF ~Hashable(tool_name) THEN "raise"
    ELSE IF tool_name.t = "str" /\ tool_name.v \in ToolNames THEN "known"
    ELSE "unknown"

\* `not tool_name or tool_name not in TOOLS`: "unknown" when true, "known" when
\* false, "raise" when the dict lookup raises TypeError (unhashable key).
UnknownToolCheck(tool_name) ==
    IF Falsy(tool_name) THEN "unknown"
    ELSE IF ~Hashable(tool_name) THEN "raise"
    ELSE IF tool_name.t = "str" /\ tool_name.v \in ToolNames THEN "known"
    ELSE "unknown"

EmptyMap == [k \in {} |-> Absent]

NoArguments == [shape |-> "absent", map |-> EmptyMap]

\* A slip: params.get('arguments') without the {} default.
ParamsGetArguments_noDefault(params) ==
    IF params.arguments.shape = "absent" THEN [shape |-> "null", map |-> EmptyMap]
    ELSE params.arguments

\* params.get('arguments', {})
ParamsGetArguments(params) ==
    IF params.arguments.shape = "absent" THEN [shape |-> "object", map |-> EmptyMap]
    ELSE params.arguments

\* A variant: the raw arguments are passed on unfiltered.
FilterArguments_noFilter(n, map) == map

\* {k: v for k, v in arguments.items() if k in expected_params}
FilterArguments(n, map) == [k \in DOMAIN map \cap ExpectedParams(n) |-> map[k]]

\* The tools/call branch.
ToolsCall(req_id, params, user, collab) ==
    IF params.shape \in {"null", "list"}
    THEN Out(InternalErrorResponse("params has no attribute get"), <<>>)
    ELSE LET tool_name == params.name
             arguments == ParamsGetArguments(params)
             known     == UnknownToolCheck(tool_name)
         IN  IF known = "raise"
             THEN Out(InternalErrorResponse("unhashable type"), <<>>)
             ELSE IF known = "unknown"
             THEN Out(UnknownToolResponse(req_id, tool_name), <<>>)
             ELSE IF arguments.shape # "object"
             THEN Out(InternalErrorResponse("arguments has no attribute items"), <<>>)
             ELSE LET filtered == FilterArguments(tool_name.v, arguments.map)
                      outcome  == CallTool(tool_name.v, filtered, user, collab)
                      call     == [tool |-> tool_name.v, args |-> filtered, user |-> user.id,
                                   raised |-> outcome.raised, message |-> outcome.message,
                                   value |-> outcome.value, nested |-> outcome.nested,
                                   task |-> outcome.task]
                  IN  IF outcome.raised
                      THEN Out(ToolErrorResponse(req_id, tool_name.v, outcome.message), <<call>>)
                      ELSE Out(ToolSuccessResponse(req_id, outcome.value), <<call>>)

Methods ==
    {"initialize", "notifications/initialized", "ping", "tools/list",
     "resources/templates/list", "resources/list", "prompts/list", "tools/call"}

\* The if/elif chain on method.
Dispatch(body, user, collab) ==
    LET req_id == ReqId(body.id)
        method == body.method
    IN  CASE method = JStr("initialize") -> Out(RpcResult(req_id, FixedResult("initialize")), <<>>)
          [] method = JStr("notifications/initialized") -> Out(NoContent, <<>>)
          [] method = JStr("ping") -> Out(RpcResult(req_id, FixedResult("ping")), <<>>)
          [] method = JStr("tools/list") ->
                Out(RpcResult(req_id, [NoResult EXCEPT !.type = "tools", !.tools = ToolList]), <<>>)
          [] method = JStr("resources/templates/list") ->
                Out(RpcResult(req_id, FixedResult("resourceTemplates")), <<>>)
          [] method = JStr("resources/list") -> Out(RpcResult(req_id, FixedResult("resources")), <<>>)
          [] method = JStr("prompts/list") -> Out(RpcResult(req_id, FixedResult("prompts")), <<>>)
          [] method = JStr("tools/call") -> ToolsCall(req_id, body.params, user, collab)
          [] OTHER -> Out(MethodNotFoundResponse(req_id), <<>>)

\* A stricter router: catalogue and call methods are refused until initialize
\* has been answered.
mcp_endpoint_sessionChecked(body, user, collab) ==
    LET check == DataCheck(body)
    IN  IF check = "raise" THEN Out(InternalErrorResponse("bad request body"), <<>>)
        ELSE IF check = "invalid" THEN Out(InvalidRequestResponse, <<>>)
        ELSE IF body.method \in {JStr("tools/list"), JStr("tools/call")} /\ history.inits = 0
        THEN Out(InvalidRequestResponse, <<>>)
        ELSE Dispatch(body, user, collab)

\* The body of mcp_endpoint: the response and the tool functions it called.
mcp_endpoint(body, user, collab) ==
    LET check == DataCheck(body)
    IN  IF check = "raise" THEN Out(InternalErrorResponse("bad request body"), <<>>)
        ELSE IF check = "invalid" THEN Out(InvalidRequestResponse, <<>>)
        ELSE Dispatch(body, user, collab)

----------------------------------------------------------------------------
(* The requests the model sends *)

JsonrpcValues == {Absent, JStr("2.0"), JStr("1.0")}

IdValues == {Absent, J("null", "null"), J("int", "1"), J("int", "7")}

MethodValues == {Absent} \cup {JStr(m) : m \in Methods \cup {"PING", "tools/remove"}}

\* Registered tools the model calls: one whose signature has a default, one
\* without, one whose body catches its own exceptions.
CalledTools == {"get_recent_books", "push_calibre_book_to_anx", "get_table_of_contents"}

UnknownNames ==
    {Absent, JStr(""), JStr("no_such_tool"), JStr("Get_Recent_Books"),
     J("int", "5"), J("list", "[]"), J("list", "[1]")}

ArgValues == {JStr("calibre"), J("int", "7")}

ArgMaps(keys) == UNION {[ks -> ArgValues] : ks \in SUBSET keys}

ArgumentsFor(n) ==
    {NoArguments, [shape |-> "null", map |-> EmptyMap], [shape |-> "list", map |-> EmptyMap]}
    \cup {[shape |-> "object", map |-> m] : m \in ArgMaps(ExpectedParams(n) \cup {"extra"})}

NoParams == [shape |-> "absent", name |-> Absent, arguments |-> NoArguments]

CallParams ==
    {NoParams, [NoParams EXCEPT !.shape = "null"], [NoParams EXCEPT !.shape = "list"]}
    \cup {[shape |-> "object", name |-> n, arguments |-> NoArguments] : n \in UnknownNames}
    \cup UNION {{[shape |-> "object", name |-> JStr(n), arguments |-> a] :
                     a \in ArgumentsFor(n)} : n \in CalledTools}

OtherParams == {NoParams, [NoParams EXCEPT !.shape = "list"]}

NoBody == [shape |-> "null", jsonrpc |-> Absent, id |-> Absent, method |-> Absent,
           params |-> NoParams]

ObjectBodies ==
    {[shape |-> "object", jsonrpc |-> v, id |-> i, method |-> m, params |-> p] :
        v \in JsonrpcValues, i \in IdValues, m \in MethodValues \ {JStr("tools/call")},
        p \in OtherParams}
    \cup
    {[shape |-> "object", jsonrpc |-> v, id |-> i, method |-> JStr("tools/call"), params |-> p] :
        v \in JsonrpcValues, i \in IdValues, p \in CallParams}

Bodies ==
    {[NoBody EXCEPT !.shape = sh] :
        sh \in {"malformed", "null", "emptylist", "list", "list_jsonrpc", "number"}}
    \cup ObjectBodies

----------------------------------------------------------------------------
(* The database *)

AllUsers == {[id |-> 1, username |-> "alice"], [id |-> 2, username |-> "bob"]}

AllTokens == {[token |-> <<"a">>, user_id |-> 1], [token |-> <<"a", "a">>, user_id |-> 2]}

NoUser == [id |-> 0, username |-> ""]

NoRow == [token |-> <<>>, user_id |-> 0]

----------------------------------------------------------------------------
(* token_required *)

\* A variant: the token is stripped before the emptiness test.
MissingToken_afterStrip(token) == ~token.present \/ strip(token.value) = <<>>

\* `if not token`: the parameter is absent or empty.
MissingToken(token) == ~token.present \/ token.value = <<>>

\* SELECT * FROM mcp_tokens WHERE token = ?
SelectToken(t) == {r \in mcp_tokens : r.token = t}

\* SELECT * FROM users WHERE id = ?
SelectUser(id) == {u \in users : u.id = id}

MissingTokenResponse == PlainError("Missing token", 401)

InvalidTokenResponse == PlainError("Invalid token", 403)

\* A slip: the missing user is reported like an unknown token.
UserNotFoundResponse_asInvalid == PlainError("Invalid token", 403)

UserNotFoundResponse == PlainError("User not found for token", 403)

NoRequest == [token |-> NoToken, body |-> NoBody]

\* Nothing answered yet: no initialize, no notifications/initialized, no failure.
NoHistory == [inits |-> 0, notified |-> FALSE, failed |-> FALSE]

\* Nothing remembered.
NoMemory == [set |-> FALSE, body |-> NoBody, calls |-> <<>>, resp |-> NoResponse,
             history |-> NoHistory]

Finish(w, r) ==
    /\ resp' = [resp EXCEPT ![w] = r]
    /\ pc' = [pc EXCEPT ![w] = "done"]

\* A request arrives at worker w.
Receive(w) ==
    /\ pc[w] = "idle"
    /\ \E t \in TokenArgs, b \in Bodies :
          req' = [req EXCEPT ![w] = [token |-> t, body |-> b]]
    /\ pc' = [pc EXCEPT ![w] = "token_lookup"]
    /\ UNCHANGED <<mcp_tokens, users, token_data, g_user, parsed, calls, resp>>
    /\ UNCHANGED <<g_kind, audiobook_tasks, history, remembered, schema_params, schema>>

\* Lines 33-43: the missing-token test, strip, and the first database session.
TokenLookup(w) ==
    /\ pc[w] = "token_lookup"
    /\ LET token == req[w].token
       IN  IF MissingToken(token)
           THEN Finish(w, MissingTokenResponse) /\ UNCHANGED token_data
           ELSE LET rows == SelectToken(strip(token.value))
                IN  IF rows = {}
                    THEN Finish(w, InvalidTokenResponse) /\ UNCHANGED token_data
                    ELSE /\ token_data' = [token_data EXCEPT ![w] = CHOOSE r \in rows : TRUE]
                         /\ pc' = [pc EXCEPT ![w] = "user_lookup"]
                         /\ UNCHANGED resp
    /\ UNCHANGED <<mcp_tokens, users, req, g_user, parsed, calls>>
    /\ UNCHANGED <<g_kind, audiobook_tasks, history, remembered, schema_params, schema>>

\* A slip: the `if not user` test is left out, the endpoint runs without a user.
UserLookup_noUserTest(w) ==
    /\ pc[w] = "user_lookup"
    /\ LET rows == SelectUser(token_data[w].user_id)
       IN  /\ g_user' = [g_user EXCEPT ![w] = IF rows = {} THEN NoUser ELSE CHOOSE u \in rows : TRUE]
           /\ g_kind' = [g_kind EXCEPT ![w] = IF rows = {} THEN "none" ELSE "Row"]
    /\ pc' = [pc EXCEPT ![w] = "endpoint"]
    /\ UNCHANGED <<mcp_tokens, users, req, token_data, parsed, calls, resp>>
    /\ UNCHANGED <<audiobook_tasks, history, remembered, schema_params, schema>>

\* A variant: the user is kept in a module-level variable shared by all
\* requests instead of the request-bound g.
UserLookup_sharedUser(w) ==
    /\ pc[w] = "user_lookup"
    /\ LET rows == SelectUser(token_data[w].user_id)
       IN  IF rows = {}
           THEN Finish(w, UserNotFoundResponse) /\ UNCHANGED <<g_user, g_kind>>
           ELSE /\ g_user' = [v \in Workers |-> CHOOSE u \in rows : TRUE]
                /\ g_kind' = [g_kind EXCEPT ![w] = "Row"]
                /\ pc' = [pc EXCEPT ![w] = "endpoint"]
                /\ UNCHANGED resp
    /\ UNCHANGED <<mcp_tokens, users, req, token_data, parsed, calls>>
    /\ UNCHANGED <<audiobook_tasks, history, remembered, schema_params, schema>>

\* Lines 45-52: the second database session, and g.user = user.
UserLookup(w) ==
    /\ pc[w] = "user_lookup"
    /\ LET rows == SelectUser(token_data[w].user_id)
       IN  IF rows = {}
           THEN Finish(w, UserNotFoundResponse) /\ UNCHANGED <<g_user, g_kind>>
           ELSE /\ g_user' = [g_user EXCEPT ![w] = CHOOSE u \in rows : TRUE]
                /\ g_kind' = [g_kind EXCEPT ![w] = "Row"]
                /\ pc' = [pc EXCEPT ![w] = "endpoint"]
                /\ UNCHANGED resp
    /\ UNCHANGED <<mcp_tokens, users, req, token_data, parsed, calls>>
    /\ UNCHANGED <<audiobook_tasks, history, remembered, schema_params, schema>>

\* return f(*args, **kwargs): the endpoint body runs with g.user attached.
\* A handler that pushed a nested test request context assigned g.user in it:
\* where the nested context reuses the application context of the request
\* ("shared"), g is the request's g and its user is rebound to the
\* SimpleNamespace copy; where it gets its own ("fresh"), the request's g is
\* untouched.  A job submitted by the route is a new pending task row.
McpEndpoint(w) ==
    /\ pc[w] = "endpoint"
    /\ \E collab \in Collab, ctx \in AppContexts :
          LET out     == mcp_endpoint(req[w].body, g_user[w], collab)
              nested  == out.calls # <<>> /\ out.calls[1].nested
              started == nested /\ ~out.calls[1].raised
          IN  /\ Finish(w, out.resp)
              /\ calls' = [calls EXCEPT ![w] = out.calls]
              /\ g_kind' = IF nested /\ ctx = "shared"
                           THEN [g_kind EXCEPT ![w] = "SimpleNamespace"]
                           ELSE g_kind
              /\ audiobook_tasks' =
                     IF started
                     THEN audiobook_tasks \cup
                          {[task_id |-> Cardinality(audiobook_tasks) + 1,
                            user_id |-> g_user[w].id,
                            book_id |-> out.calls[1].args["book_id"],
                            library_type |-> out.calls[1].args["library_type"],
                            status |-> "pending"]}
                     ELSE audiobook_tasks
    /\ parsed' = [parsed EXCEPT ![w] = TRUE]
    /\ UNCHANGED <<mcp_tokens, users, req, token_data, g_user>>
    /\ UNCHANGED <<history, remembered, schema_params, schema>>

\* The response is sent and the request context is torn down.
Respond(w) ==
    /\ pc[w] = "done"
    /\ pc' = [pc EXCEPT ![w] = "idle"]
    /\ req' = [req EXCEPT ![w] = NoRequest]
    /\ token_data' = [token_data EXCEPT ![w] = NoRow]
    /\ g_user' = [g_user EXCEPT ![w] = NoUser]
    /\ g_kind' = [g_kind EXCEPT ![w] = "none"]
    /\ parsed' = [parsed EXCEPT ![w] = FALSE]
    /\ calls' = [calls EXCEPT ![w] = <<>>]
    /\ resp' = [resp EXCEPT ![w] = NoResponse]
    /\ UNCHANGED <<mcp_tokens, users>>
    /\ UNCHANGED <<audiobook_tasks, history, remembered, schema_params, schema>>

\* The application removes or creates a user (outside this module).
DeleteUser ==
    /\ \E u \in users : users' = users \ {u}
    /\ UNCHANGED <<mcp_tokens, pc, req, token_data, g_user, parsed, calls, resp>>
    /\ UNCHANGED <<g_kind, audiobook_tasks, history, remembered, schema_params, schema>>

CreateUser ==
    /\ \E u \in AllUsers \ users : users' = users \cup {u}
    /\ UNCHANGED <<mcp_tokens, pc, req, token_data, g_user, parsed, calls, resp>>
    /\ UNCHANGED <<g_kind, audiobook_tasks, history, remembered, schema_params, schema>>

\* The application revokes or issues a token (outside this module).
RevokeToken ==
    /\ \E r \in mcp_tokens : mcp_tokens' = mcp_tokens \ {r}
    /\ UNCHANGED <<users, pc, req, token_data, g_user, parsed, calls, resp>>
    /\ UNCHANGED <<g_kind, audiobook_tasks, history, remembered, schema_params, schema>>

IssueToken ==
    /\ \E r \in AllTokens \ mcp_tokens : mcp_tokens' = mcp_tokens \cup {r}
    /\ UNCHANGED <<users, pc, req, token_data, g_user, parsed, calls, resp>>
    /\ UNCHANGED <<g_kind, audiobook_tasks, history, remembered, schema_params, schema>>

Init ==
    /\ mcp_tokens = AllTokens
    /\ users = AllUsers
    /\ pc = [w \in Workers |-> "idle"]
    /\ req = [w \in Workers |-> NoRequest]
    /\ token_data = [w \in Workers |-> NoRow]
    /\ g_user = [w \in Workers |-> NoUser]
    /\ parsed = [w \in Workers |-> FALSE]
    /\ calls = [w \in Workers |-> <<>>]
    /\ resp = [w \in Workers |-> NoResponse]
    /\ g_kind = [w \in Workers |-> "none"]
    /\ audiobook_tasks = {}
    /\ history = NoHistory
    /\ remembered = NoMemory
    /\ schema_params = <<>>
    /\ schema = NoSchema

\* Requests served one at a time, the database changing underneath.
Next ==
    \/ \E w \in SeqWorkers : Receive(w)
    \/ \E w \in SeqWorkers : TokenLookup(w)
    \/ \E w \in SeqWorkers : UserLookup(w)
    \/ \E w \in SeqWorkers : McpEndpoint(w)
    \/ \E w \in SeqWorkers : Respond(w)
    \/ DeleteUser
    \/ CreateUser
    \/ RevokeToken
    \/ IssueToken

Spec == Init /\ [][Next]_vars

----------------------------------------------------------------------------
(* Properties *)

Done(w) == pc[w] = "done"

\* The request passed the gate and its body was handled by mcp_endpoint.
Routed(w) == Done(w) /\ parsed[w]

Body(w) == req[w].body

\* A JSON object with jsonrpc "2.0".
WellFormed(w) == Body(w).shape = "object" /\ Body(w).jsonrpc = JStr("2.0")

IsToolsCall(w) == WellFormed(w) /\ Body(w).method = JStr("tools/call")

\* tools/call with params a mapping whose name is a key of TOOLS.
CallsRegistered(w) ==
    /\ IsToolsCall(w)
    /\ Body(w).params.shape = "object"
    /\ Body(w).params.name.t = "str"
    /\ Body(w).params.name.v \in ToolNames

\* The response is {jsonrpc, id, result: {content, isError}} and no error object.
ToolResultShape(r) ==
    /\ r.kind = "rpc"
    /\ r.code = 0
    /\ r.result.type = "tool"
    /\ Len(r.result.content) = 1
    /\ r.result.content[1].type = "text"

\* C1: when the handler called for a tools/call raises, the response is a
\* result (no error object) with a 2xx status, isError true and the text
\* "Error executing tool {name}: {message}" naming the tool called.
C1_RaisingHandlerIsToolError ==
    \A w \in Workers :
        (Done(w) /\ calls[w] # <<>> /\ calls[w][1].raised) =>
            /\ ToolResultShape(resp[w])
            /\ resp[w].status \in 200..299
            /\ resp[w].result.isError = TRUE
            /\ resp[w].result.content[1].text =
                  <<"Error executing tool ", Body(w).params.name.v, ": ", calls[w][1].message>>
            /\ calls[w][1].tool = Body(w).params.name.v
            /\ resp[w].id = ReqId(Body(w).id)

C1_Witness ==
    \E w \in Workers :
        /\ Done(w) /\ calls[w] # <<>> /\ calls[w][1].raised
        /\ calls[w][1].message = "collaborator failed"
        /\ calls[w][1].tool = "push_calibre_book_to_anx"

\* C2 as stated: every routed tools/call naming a registered tool gets the
\* result shape, whatever params.arguments is.
C2_Original ==
    \A w \in Workers :
        (Routed(w) /\ CallsRegistered(w)) => ToolResultShape(resp[w])

\* C2 (amended): a routed tools/call naming a registered tool gets the result
\* shape {content, isError} and no error object when params.arguments is
\* absent or a mapping (extra or missing keys included); when arguments is
\* present and not a mapping the response is error -32603 with status 500
\* and no handler is called.
C2_ResultShapeForMappingArguments ==
    \A w \in Workers :
        (Routed(w) /\ CallsRegistered(w)) =>
            IF Body(w).params.arguments.shape \in {"absent", "object"}
            THEN /\ ToolResultShape(resp[w])
                 /\ resp[w].status = 200
                 /\ Len(calls[w]) = 1
            ELSE /\ resp[w].code = -32603
                 /\ resp[w].status = 500
                 /\ resp[w].result.type = "none"
                 /\ calls[w] = <<>>

C2_Witness ==
    \E w \in Workers :
        /\ Routed(w) /\ CallsRegistered(w)
        /\ Body(w).params.arguments.shape = "object"
        /\ DOMAIN Body(w).params.arguments.map = {"extra"}
        /\ ToolResultShape(resp[w])
        /\ resp[w].result.isError

\* params.name is missing or is not a key of the registry.
NamesNoTool(w) ==
    \/ Body(w).params.shape # "object"
    \/ Body(w).params.name.t # "str"
    \/ Body(w).params.name.v \notin ToolNames

IsUnknownToolError(w) ==
    /\ resp[w].kind = "rpc"
    /\ resp[w].code = -32602
    /\ resp[w].status = 404
    /\ resp[w].message = <<"Unknown tool: ", Str(Body(w).params.name)>>
    /\ resp[w].result.type = "none"

\* C3 as stated: every tools/call whose name is missing or not a registry key
\* gets -32602 with status 404.
C3_Original ==
    \A w \in Workers :
        (Routed(w) /\ IsToolsCall(w) /\ NamesNoTool(w)) =>
            IsUnknownToolError(w) /\ calls[w] = <<>>

\* C3 (amended): for a tools/call whose params is absent or a mapping and
\* whose name is missing, falsy, or a hashable value that is not a registry
\* key, the response is -32602 'Unknown tool: {name}' with status 404; when
\* params is not a mapping or the name is a non-empty list or object the
\* response is -32603 with status 500; in all these cases no handler is called.
C3_UnknownToolRejected ==
    \A w \in Workers :
        (Routed(w) /\ IsToolsCall(w) /\ NamesNoTool(w)) =>
            /\ calls[w] = <<>>
            /\ IF /\ Body(w).params.shape \in {"absent", "object"}
                  /\ (Falsy(Body(w).params.name) \/ Hashable(Body(w).params.name))
               THEN IsUnknownToolError(w)
               ELSE resp[w].code = -32603 /\ resp[w].status = 500

C3_Witness ==
    \E w \in Workers :
        /\ Routed(w) /\ IsToolsCall(w)
        /\ Body(w).params.name = J("list", "[]")
        /\ IsUnknownToolError(w)

\* C4: a routed request whose body is an object with jsonrpc missing or other
\* than "2.0" gets error -32600 with a 4xx status and id null, whatever its
\* method: no result, no empty 204 response, no handler called.
C4_BadVersionRejected ==
    \A w \in Workers :
        (Routed(w) /\ Body(w).shape = "object" /\ Body(w).jsonrpc # JStr("2.0")) =>
            /\ resp[w].kind = "rpc"
            /\ resp[w].code = -32600
            /\ resp[w].status \in 400..499
            /\ resp[w].id = NullId
            /\ resp[w].result.type = "none"
            /\ calls[w] = <<>>

C4_Witness ==
    \E w \in Workers :
        /\ Routed(w) /\ Body(w).shape = "object"
        /\ Body(w).jsonrpc = JStr("1.0")
        /\ Body(w).method = JStr("tools/call")
        /\ Body(w).params.name = JStr("get_recent_books")
        /\ resp[w].code = -32600

\* C5: a routed well-formed request whose method is absent or is not one of
\* the eight method names (compared case-sensitively) gets error -32601
\* 'Method not found' with a non-2xx status, and no handler is called.
C5_UnknownMethodRejected ==
    \A w \in Workers :
        (Routed(w) /\ WellFormed(w)
                   /\ (Body(w).method.t # "str" \/ Body(w).method.v \notin Methods)) =>
            /\ resp[w].kind = "rpc"
            /\ resp[w].code = -32601
            /\ resp[w].message = <<"Method not found">>
            /\ resp[w].status \notin 200..299
            /\ resp[w].result.type = "none"
            /\ calls[w] = <<>>

C5_Witness ==
    \E w \in Workers :
        /\ Routed(w) /\ WellFormed(w)
        /\ Body(w).method = JStr("PING")
        /\ resp[w].code = -32601

\* C6: the gate runs before the router: while no user is attached to the
\* request its body is not parsed and no handler is called; a request that
\* ends without a user attached ends with a plain 401 or 403 error, not a
\* JSON-RPC envelope, whatever its body is.
C6_GateBeforeRouter ==
    \A w \in Workers :
        /\ g_user[w] = NoUser => (~parsed[w] /\ calls[w] = <<>> /\ resp[w].kind \notin {"rpc", "empty"})
        /\ (Done(w) /\ g_user[w] = NoUser) =>
              /\ resp[w].kind = "plain"
              /\ resp[w].status \in {401, 403}
              /\ resp[w].plain # ""

C6_Witness ==
    \E w \in Workers :
        /\ Done(w) /\ g_user[w] = NoUser
        /\ token_data[w] # NoRow
        /\ Body(w).shape = "malformed"
        /\ resp[w].status = 403

\* Reference trimming, stated without str.strip(): the part of s between its
\* first and its last character that is not a space.
Trimmed(s) ==
    LET ks == {k \in 1..Len(s) : s[k] # " "}
    IN  IF ks = {} THEN <<>>
        ELSE SubSeq(s, CHOOSE i \in ks : \A k \in ks : i <= k,
                       CHOOSE j \in ks : \A k \in ks : k <= j)

StoredTokens == {r.token : r \in mcp_tokens}

IsPlain(r, status, msg) == r.kind = "plain" /\ r.status = status /\ r.plain = msg

\* Worker w completes its token lookup in this step.
TokenLookupStep(w) == pc[w] = "token_lookup" /\ pc'[w] # "token_lookup"

\* Worker w completes its user lookup in this step.
UserLookupStep(w) == pc[w] = "user_lookup" /\ pc'[w] # "user_lookup"

\* C7 as stated: every supplied token value that is not a token of the store
\* is rejected with 403 'Invalid token'.
C7_Original ==
    \A w \in Workers :
        (Done(w) /\ req[w].token.present
                 /\ req[w].token.value \notin {r.token : r \in AllTokens}) =>
            IsPlain(resp[w], 403, "Invalid token") /\ calls[w] = <<>>

\* C7 (amended): every non-empty token value whose whitespace-trimmed form is
\* not in the token store when it is looked up is rejected with 403 'Invalid
\* token', and a request rejected so never has its body parsed or a handler
\* called.
C7_UnknownTokenRejected ==
    [][\A w \in Workers :
          /\ (/\ TokenLookupStep(w)
              /\ req[w].token.present
              /\ req[w].token.value # <<>>
              /\ Trimmed(req[w].token.value) \notin StoredTokens) =>
                 /\ IsPlain(resp'[w], 403, "Invalid token")
                 /\ pc'[w] = "done"
                 /\ g_user'[w] = NoUser
          /\ IsPlain(resp[w], 403, "Invalid token") =>
                 /\ ~parsed[w] /\ calls[w] = <<>>
                 /\ pc[w] = "done" /\ pc'[w] \in {"done", "idle"}
                 /\ ~parsed'[w] /\ calls'[w] = <<>>]_vars

C7_Witness ==
    \E w \in Workers :
        /\ Done(w)
        /\ req[w].token.value = <<" ", " ">>
        /\ IsPlain(resp[w], 403, "Invalid token")
        /\ IsToolsCall(w)

\* C8: the gate fails in exactly three ways, each with its own status and
\* message: no token (absent or empty) -> 401 'Missing token'; trimmed token
\* not in the store at the token lookup -> 403 'Invalid token'; token found
\* but no user row with its user_id at the user lookup (a user removed after
\* the token lookup included) -> 403 'User not found for token'.  Otherwise
\* the user attached to the request is the users row whose id the token row
\* names.
C8_ThreeGateFailures ==
    [][\A w \in Workers :
          /\ TokenLookupStep(w) =>
                IF ~req[w].token.present \/ req[w].token.value = <<>>
                THEN IsPlain(resp'[w], 401, "Missing token") /\ pc'[w] = "done"
                ELSE IF Trimmed(req[w].token.value) \notin StoredTokens
                THEN IsPlain(resp'[w], 403, "Invalid token") /\ pc'[w] = "done"
                ELSE /\ pc'[w] = "user_lookup"
                     /\ resp'[w] = NoResponse
                     /\ token_data'[w] \in mcp_tokens
                     /\ token_data'[w].token = Trimmed(req[w].token.value)
          /\ UserLookupStep(w) =>
                IF \A u \in users : u.id # token_data[w].user_id
                THEN /\ IsPlain(resp'[w], 403, "User not found for token")
                     /\ pc'[w] = "done"
                     /\ g_user'[w] = NoUser
                ELSE /\ pc'[w] = "endpoint"
                     /\ resp'[w] = NoResponse
                     /\ g_user'[w] \in users
                     /\ g_user'[w].id = token_data[w].user_id
          /\ resp[w].kind = "plain" =>
                <<resp[w].status, resp[w].plain>> \in
                    {<<401, "Missing token">>, <<403, "Invalid token">>,
                     <<403, "User not found for token">>}
          /\ g_user[w] # NoUser => g_user[w].id = token_data[w].user_id]_vars

C8_Witness ==
    \E w \in Workers :
        /\ Done(w)
        /\ IsPlain(resp[w], 403, "User not found for token")
        /\ token_data[w] \in mcp_tokens
        /\ g_user[w] = NoUser

\* C10: for every routed request the response carries an error object iff its
\* status is not 2xx; the error code and status are then one of -32600/400,
\* -32601/404, -32602/404, -32603/500; a response with a result (tool failures
\* with isError true included) has a 2xx status; an envelope has exactly one
\* of result and error.
C10_ErrorIffNonSuccess ==
    \A w \in Workers :
        Routed(w) =>
            LET r == resp[w]
                hasError  == r.code # 0
                hasResult == r.result.type # "none"
            IN  /\ r.kind \in {"rpc", "empty"}
                /\ hasError <=> (r.status \notin 200..299)
                /\ hasError =>
                      <<r.code, r.status>> \in
                          {<<-32600, 400>>, <<-32601, 404>>, <<-32602, 404>>, <<-32603, 500>>}
                /\ hasResult => r.status \in 200..299
                /\ r.kind = "rpc" => (hasError # hasResult)
                /\ r.kind = "empty" => (r.status = 204 /\ ~hasError /\ ~hasResult)

C10_Witness ==
    \E w \in Workers :
        /\ Routed(w)
        /\ resp[w].result.isError
        /\ resp[w].status = 200
        /\ resp[w].code = 0
        /\ calls[w][1].message = "missing required positional argument"

----------------------------------------------------------------------------
(* The gate applied to a token and to its trimmed form, on one database *)

TrimmedArg(token) == [token EXCEPT !.value = Trimmed(token.value)]

\* Worker w1 holds a request with token t, w2 the same request with t trimmed.
InitTrim ==
    /\ mcp_tokens \in SUBSET AllTokens
    /\ users \in SUBSET AllUsers
    /\ pc = [w \in Workers |-> "token_lookup"]
    /\ \E t \in TokenArgs :
          req = [w \in Workers |->
                    [token |-> IF w = "w1" THEN t ELSE TrimmedArg(t), body |-> NoBody]]
    /\ token_data = [w \in Workers |-> NoRow]
    /\ g_user = [w \in Workers |-> NoUser]
    /\ parsed = [w \in Workers |-> FALSE]
    /\ calls = [w \in Workers |-> <<>>]
    /\ resp = [w \in Workers |-> NoResponse]
    /\ g_kind = [w \in Workers |-> "none"]
    /\ audiobook_tasks = {}
    /\ history = NoHistory
    /\ remembered = NoMemory
    /\ schema_params = <<>>
    /\ schema = NoSchema

NextTrim ==
    \/ \E w \in Workers : TokenLookup(w)
    \/ \E w \in Workers : UserLookup(w)

SpecTrim == InitTrim /\ [][NextTrim]_vars

\* The gate has decided: the request is rejected or handed to the endpoint.
PastGate(w) == pc[w] \in {"endpoint", "done"}

\* missing / invalid / principal-not-found (the plain response) or the user attached.
GateOutcome(w) == [status |-> resp[w].status, error |-> resp[w].plain, principal |-> g_user[w]]

BothPastGate ==
    /\ PastGate("w1") /\ PastGate("w2")
    /\ req["w2"].token = TrimmedArg(req["w1"].token)

\* C9 as stated: the gate's outcome for a token equals its outcome for the
\* trimmed token, for every token value.
C9_Original == BothPastGate => GateOutcome("w1") = GateOutcome("w2")

\* C9 (amended): for every supplied token value that is empty or whose trimmed
\* form is not empty, the gate's outcome equals its outcome for the trimmed
\* value; a non-empty token of whitespace only is not treated as missing: it is
\* looked up as the empty string (403 'Invalid token', the store holding no
\* empty token) while its trimmed form is rejected with 401 'Missing token'.
C9_TrimmedBeforeLookup ==
    BothPastGate =>
        LET t == req["w1"].token
        IN  IF t.present /\ t.value # <<>> /\ Trimmed(t.value) = <<>>
            THEN /\ IsPlain(resp["w1"], 403, "Invalid token")
                 /\ IsPlain(resp["w2"], 401, "Missing token")
            ELSE GateOutcome("w1") = GateOutcome("w2")

C9_Witness ==
    /\ BothPastGate
    /\ req["w1"].token.value = <<" ", "a">>
    /\ req["w2"].token.value = <<"a">>
    /\ g_user["w1"] = [id |-> 1, username |-> "alice"]
    /\ g_user["w2"] = g_user["w1"]

----------------------------------------------------------------------------
(* A session: requests of one client answered one after the other, with an  *)
(* observer that records what was answered before                           *)

MaxInits == 2

SessionBody(m, p) ==
    [shape |-> "object", jsonrpc |-> JStr("2.0"), id |-> J("int", "7"), method |-> JStr(m),
     params |-> p]

SessionCall(n, m) ==
    [shape |-> "object", name |-> JStr(n), arguments |-> [shape |-> "object", map |-> m]]

SessionBodies ==
    {SessionBody(m, NoParams) :
        m \in {"initialize", "notifications/initialized", "ping", "tools/list", "PING"}}
    \cup {SessionBody("tools/call", SessionCall("get_recent_books",
                                                [k \in {"library_type"} |-> JStr("calibre")])),
          SessionBody("tools/call", SessionCall("no_such_tool", EmptyMap))}

SessionTokens == {[present |-> TRUE, value |-> r.token] : r \in AllTokens}

ReceiveSession(w) ==
    /\ pc[w] = "idle"
    /\ \E t \in SessionTokens, b \in SessionBodies :
          req' = [req EXCEPT ![w] = [token |-> t, body |-> b]]
    /\ pc' = [pc EXCEPT ![w] = "token_lookup"]
    /\ UNCHANGED <<mcp_tokens, users, token_data, g_user, parsed, calls, resp>>
    /\ UNCHANGED <<g_kind, audiobook_tasks, history, remembered, schema_params, schema>>

\* What the observer knows after the answer of worker w.
HistoryAfter(w) ==
    LET b == req[w].body
        r == resp[w]
    IN  [inits    |-> IF b.method = JStr("initialize") /\ r.result.type = "initialize"
                         /\ history.inits < MaxInits
                      THEN history.inits + 1 ELSE history.inits,
         notified |-> history.notified \/ (b.method = JStr("notifications/initialized")
                                            /\ r.kind = "empty"),
         failed   |-> history.failed \/ r.code # 0 \/ r.result.isError]

\* The response is sent; the observer records it and may remember the request.
RespondSession(w) ==
    /\ pc[w] = "done"
    /\ pc' = [pc EXCEPT ![w] = "idle"]
    /\ req' = [req EXCEPT ![w] = NoRequest]
    /\ token_data' = [token_data EXCEPT ![w] = NoRow]
    /\ g_user' = [g_user EXCEPT ![w] = NoUser]
    /\ g_kind' = [g_kind EXCEPT ![w] = "none"]
    /\ parsed' = [parsed EXCEPT ![w] = FALSE]
    /\ calls' = [calls EXCEPT ![w] = <<>>]
    /\ resp' = [resp EXCEPT ![w] = NoResponse]
    /\ history' = HistoryAfter(w)
    /\ \/ UNCHANGED remembered
       \/ /\ ~remembered.set /\ parsed[w]
          /\ remembered' = [set |-> TRUE, body |-> req[w].body, calls |-> calls[w],
                            resp |-> resp[w], history |-> history]
    /\ UNCHANGED <<mcp_tokens, users, audiobook_tasks, schema_params, schema>>

NextSession ==
    \/ \E w \in SeqWorkers : ReceiveSession(w)
    \/ \E w \in SeqWorkers : TokenLookup(w)
    \/ \E w \in SeqWorkers : UserLookup(w)
    \/ \E w \in SeqWorkers : McpEndpoint(w)
    \/ \E w \in SeqWorkers : RespondSession(w)

SpecSession == Init /\ [][NextSession]_vars

\* How the handlers called for a request ended, whoever the caller was.
CallOutcomes(c) == [i \in DOMAIN c |-> <<c[i].tool, c[i].args, c[i].raised, c[i].message, c[i].value>>]

\* The request of worker w is the remembered one, its handler ending the same way.
SameAsRemembered(w) ==
    /\ remembered.set
    /\ remembered.body = Body(w)
    /\ CallOutcomes(remembered.calls) = CallOutcomes(calls[w])

\* C11: whatever was answered before (initialize never, once or several
\* times, notifications/initialized or not, failures or not), initialize gets
\* the same fixed result, tools/list and tools/call are answered, and a
\* request gets the answer the same request got earlier.
C11_NoSessionState ==
    \A w \in Workers :
        (Routed(w) /\ WellFormed(w)) =>
            /\ Body(w).method = JStr("initialize") =>
                  resp[w] = [NoResponse EXCEPT !.kind = "rpc", !.status = 200,
                                               !.id = ReqId(Body(w).id),
                                               !.result = [NoResult EXCEPT !.type = "initialize"]]
            /\ Body(w).method = JStr("tools/list") =>
                  resp[w].result.type = "tools" /\ resp[w].status = 200 /\ resp[w].code = 0
            /\ (CallsRegistered(w) /\ Body(w).params.arguments.shape = "object") =>
                  ToolResultShape(resp[w]) /\ Len(calls[w]) = 1
            /\ SameAsRemembered(w) => resp[w] = remembered.resp

C11_Witness ==
    \E w \in Workers :
        /\ Routed(w) /\ CallsRegistered(w)
        /\ SameAsRemembered(w)
        /\ remembered.history = NoHistory
        /\ history.inits >= 2 /\ history.notified /\ history.failed
        /\ ToolResultShape(resp[w])

----------------------------------------------------------------------------
(* tools/list, and get_input_schema applied to parameter specs of every tag *)

MaxParams == 2

TypeTags == {"int", "float", "bool", "str", "list"}

\* Parameter specs are dicts: ordered, with distinct names.
ParamSpecs ==
    {ps \in UNION {[1..n -> {P(nm, t) : nm \in {"limit", "q"}, t \in TypeTags}] :
                      n \in 0..MaxParams} :
        \A i, j \in 1..Len(ps) : ps[i].name = ps[j].name => i = j}

ListBodies ==
    {[shape |-> "object", jsonrpc |-> JStr("2.0"), id |-> i, method |-> JStr(m),
      params |-> NoParams] : i \in IdValues, m \in {"tools/list", "ping"}}

InitList ==
    /\ Init!1 /\ Init!2 /\ Init!3 /\ Init!4 /\ Init!5 /\ Init!6 /\ Init!7 /\ Init!8
    /\ Init!9 /\ Init!10 /\ Init!11 /\ Init!12 /\ Init!13
    /\ schema_params \in ParamSpecs
    /\ schema = NoSchema

ReceiveList(w) ==
    /\ pc[w] = "idle"
    /\ \E t \in SessionTokens, b \in ListBodies :
          req' = [req EXCEPT ![w] = [token |-> t, body |-> b]]
    /\ pc' = [pc EXCEPT ![w] = "token_lookup"]
    /\ UNCHANGED <<mcp_tokens, users, token_data, g_user, parsed, calls, resp>>
    /\ UNCHANGED <<g_kind, audiobook_tasks, history, remembered, schema_params, schema>>

\* get_input_schema is applied to the parameter spec.
GenerateSchema ==
    /\ schema = NoSchema
    /\ schema' = get_input_schema(schema_params)
    /\ UNCHANGED <<mcp_tokens, users, pc, req, token_data, g_user, parsed, calls, resp>>
    /\ UNCHANGED <<g_kind, audiobook_tasks, history, remembered, schema_params>>

NextList ==
    \/ \E w \in SeqWorkers : ReceiveList(w)
    \/ \E w \in SeqWorkers : TokenLookup(w)
    \/ \E w \in SeqWorkers : UserLookup(w)
    \/ \E w \in SeqWorkers : McpEndpoint(w)
    \/ \E w \in SeqWorkers : Respond(w)
    \/ GenerateSchema

SpecList == InitList /\ [][NextList]_vars

\* The JSON type the schema must give a type tag.
ExpectedJsonType(t) ==
    IF t = "int" THEN "integer" ELSE IF t = "float" THEN "number"
    ELSE IF t = "bool" THEN "boolean" ELSE "string"

\* sch describes exactly the parameters ps, in their order, all required.
SchemaOf(sch, ps) ==
    /\ sch.type = "object"
    /\ Len(sch.required) = Len(ps)
    /\ Len(sch.properties) = Len(ps)
    /\ \A j \in 1..Len(ps) :
          /\ sch.required[j] = ps[j].name
          /\ sch.properties[j].name = ps[j].name
          /\ sch.properties[j].type = ExpectedJsonType(ps[j].type)
          /\ sch.properties[j].description = ""

\* C12: every answer to tools/list holds one entry per registry key, in
\* insertion order, whose inputSchema requires the tool's full parameter list
\* in order and describes exactly those parameters; a schema types int, float
\* and bool tags integer, number and boolean, and any other tag string.
C12_ToolsListIsRegistry ==
    /\ \A w \in Workers :
          (Routed(w) /\ WellFormed(w) /\ Body(w).method = JStr("tools/list")) =>
              LET tl == resp[w].result.tools
              IN  /\ resp[w].result.type = "tools"
                  /\ Len(tl) = Len(TOOLS)
                  /\ \A i \in 1..Len(TOOLS) :
                        /\ tl[i].name = TOOLS[i].name
                        /\ SchemaOf(tl[i].inputSchema, TOOLS[i].params)
    /\ schema # NoSchema => SchemaOf(schema, schema_params)

C12_Witness ==
    /\ schema # NoSchema
    /\ schema_params = <<P("q", "float"), P("limit", "list")>>
    /\ \E w \in Workers :
          /\ Routed(w) /\ Body(w).method = JStr("tools/list")
          /\ Len(resp[w].result.tools) = 14
          /\ resp[w].result.tools[5].inputSchema.required = <<"library_type", "limit">>

----------------------------------------------------------------------------
(* Argument filtering *)

\* The raw arguments of the tools/call request of w: {} when absent.
RawArguments(w) ==
    IF Body(w).params.arguments.shape = "absent" THEN EmptyMap
    ELSE Body(w).params.arguments.map

MappingArguments(w) ==
    /\ CallsRegistered(w)
    /\ Body(w).params.arguments.shape \in {"absent", "object"}

\* C13: a tools/call on a registered tool with a mapping of arguments calls
\* the handler once, with exactly the raw entries whose keys are parameters of
\* the tool, values unchanged; extra keys, missing parameters and mistyped
\* values never make the router answer a JSON-RPC error: the response is a tool
\* result, and it is flagged isError only when the handler call raised.
C13_FilteredArgumentsReachHandler ==
    \A w \in Workers :
        (Routed(w) /\ MappingArguments(w)) =>
            LET n   == Body(w).params.name.v
                raw == RawArguments(w)
            IN  /\ Len(calls[w]) = 1
                /\ calls[w][1].tool = n
                /\ DOMAIN calls[w][1].args = DOMAIN raw \cap ExpectedParams(n)
                /\ \A k \in DOMAIN calls[w][1].args : calls[w][1].args[k] = raw[k]
                /\ ToolResultShape(resp[w])
                /\ resp[w].status = 200
                /\ resp[w].result.isError = calls[w][1].raised

\* An extra key only, the required parameters missing: the handler is called
\* with no arguments and its TypeError is a tool error.
C13_Witness ==
    \E w \in Workers :
        /\ Routed(w) /\ MappingArguments(w)
        /\ Body(w).params.name = JStr("push_calibre_book_to_anx")
        /\ DOMAIN RawArguments(w) = {"extra"}
        /\ Len(calls[w]) = 1
        /\ calls[w][1].args = EmptyMap
        /\ calls[w][1].raised
        /\ resp[w].result.isError
        /\ resp[w].status = 200

----------------------------------------------------------------------------
(* Faults inside the router *)

\* The request of w makes a statement of mcp_endpoint raise outside the inner
\* try: the body is not JSON, or is JSON on which the envelope test raises;
\* params of tools/call without get; a name that cannot be a dict key;
\* arguments of a registered tool without items.
Faults(w) ==
    \/ Body(w).shape \in {"malformed", "list_jsonrpc", "number"}
    \/ IsToolsCall(w) /\ Body(w).params.shape \in {"null", "list"}
    \/ /\ IsToolsCall(w) /\ Body(w).params.shape = "object"
       /\ Body(w).params.name = J("list", "[1]")
    \/ CallsRegistered(w) /\ Body(w).params.arguments.shape \in {"null", "list"}

\* C14: whatever body an authenticated request carries, mcp_endpoint answers
\* with the 204 empty response or with one JSON-RPC envelope holding either a
\* result or an error; exactly the requests on which a statement raises outside
\* the inner try are answered -32603 with status 500 and id null, no handler
\* having been called.
C14_FaultsAreInternalErrors ==
    \A w \in Workers :
        Routed(w) =>
            /\ resp[w].kind \in {"rpc", "empty"}
            /\ resp[w].kind = "empty" =>
                   resp[w].status = 204 /\ resp[w].code = 0 /\ resp[w].result.type = "none"
            /\ resp[w].kind = "rpc" => (resp[w].code # 0) # (resp[w].result.type # "none")
            /\ Faults(w) <=> (resp[w].kind = "rpc" /\ resp[w].code = -32603)
            /\ Faults(w) =>
                   /\ resp[w].status = 500
                   /\ resp[w].id = J("null", "null")
                   /\ resp[w].result.type = "none"
                   /\ calls[w] = <<>>

C14_Witness ==
    \E w \in Workers :
        /\ Routed(w)
        /\ Body(w).shape = "malformed"
        /\ resp[w].kind = "rpc" /\ resp[w].code = -32603 /\ resp[w].status = 500
        /\ resp[w].id = J("null", "null")

----------------------------------------------------------------------------
(* The initialized notification *)

IsInitializedNotification(w) ==
    WellFormed(w) /\ Body(w).method = JStr("notifications/initialized")

\* The step in which mcp_endpoint handles the request of w.
EndpointStep(w) == pc[w] = "endpoint" /\ pc'[w] = "done"

\* C15: a well-formed notifications/initialized request, with or without an
\* id, is answered by an empty body with status 204, without result or error,
\* and handling it calls no handler and changes neither the stores nor the
\* user attached to the request.
C15_InitializedNotificationIsSilent ==
    [][\A w \in Workers :
          (EndpointStep(w) /\ IsInitializedNotification(w)) =>
              /\ resp'[w].kind = "empty"
              /\ resp'[w].status = 204
              /\ resp'[w].plain = ""
              /\ resp'[w].code = 0
              /\ resp'[w].result.type = "none"
              /\ calls'[w] = <<>>
              /\ UNCHANGED <<mcp_tokens, users, audiobook_tasks, g_user, g_kind, token_data>>]_vars

C15_Witness ==
    \E w \in Workers :
        /\ Routed(w) /\ IsInitializedNotification(w)
        /\ Body(w).id = J("int", "7")
        /\ resp[w].kind = "empty" /\ resp[w].status = 204
        /\ calls[w] = <<>>

----------------------------------------------------------------------------
(* The id of a response *)

\* What json serialises for data.get('id'): the member, null when there is none.
EchoedId(w) == IF Body(w).id = Absent THEN J("null", "null") ELSE Body(w).id

\* C16: every response with a result, and every -32601 and -32602 error,
\* carries the id member of the request unchanged, null when the request has
\* no id or the id null; every -32600 and -32603 error carries id null whatever
\* the request's id; a well-formed ping is answered by the empty result with
\* the request's id for every user.
C16_IdEchoed ==
    \A w \in Workers :
        (Routed(w) /\ resp[w].kind = "rpc") =>
            /\ resp[w].code \in {-32600, -32603} => resp[w].id = J("null", "null")
            /\ resp[w].code \notin {-32600, -32603} => resp[w].id = EchoedId(w)
            /\ (WellFormed(w) /\ Body(w).method = JStr("ping")) =>
                   /\ resp[w].result.type = "ping"
                   /\ resp[w].code = 0
                   /\ resp[w].id = EchoedId(w)

C16_Witness ==
    \E w \in Workers :
        /\ Routed(w) /\ WellFormed(w)
        /\ Body(w).method = JStr("ping")
        /\ Body(w).id = J("int", "7")
        /\ g_user[w].id = 2
        /\ resp[w].id = J("int", "7")
        /\ resp[w].result.type = "ping"

\* C16 as stated: only -32600 and -32603 responses carry id null.
C16_Original ==
    \A w \in Workers :
        (Routed(w) /\ resp[w].kind = "rpc") =>
            /\ resp[w].code \notin {-32600, -32603} => resp[w].id = Body(w).id
            /\ resp[w].id = J("null", "null") => resp[w].code \in {-32600, -32603}

----------------------------------------------------------------------------
(* Concurrent requests: every worker serves requests, steps interleave *)

ConcBodies ==
    {SessionBody("ping", NoParams),
     SessionBody("tools/call", SessionCall("get_recent_books",
                                           [k \in {"library_type"} |-> JStr("calibre")]))}

ReceiveConc(w) ==
    /\ pc[w] = "idle"
    /\ \E t \in SessionTokens, b \in ConcBodies :
          req' = [req EXCEPT ![w] = [token |-> t, body |-> b]]
    /\ pc' = [pc EXCEPT ![w] = "token_lookup"]
    /\ UNCHANGED <<mcp_tokens, users, token_data, g_user, parsed, calls, resp>>
    /\ UNCHANGED <<g_kind, audiobook_tasks, history, remembered, schema_params, schema>>

NextConc ==
    \/ \E w \in Workers : ReceiveConc(w)
    \/ \E w \in Workers : TokenLookup(w)
    \/ \E w \in Workers : UserLookup(w)
    \/ \E w \in Workers : McpEndpoint(w)
    \/ \E w \in Workers : Respond(w)
    \/ DeleteUser
    \/ CreateUser

SpecConc == Init /\ [][NextConc]_vars

\* The user id the token store gives the token string tok, 0 when none.
PrincipalOf(tok) ==
    IF \E row \in AllTokens : row.token = Trimmed(tok)
    THEN (CHOOSE row \in AllTokens : row.token = Trimmed(tok)).user_id
    ELSE 0

\* C17: whatever the interleaving of the requests in flight, every handler
\* call made for a request is made with the user that the token of that same
\* request resolves to, and the user attached to a request's context is that
\* user from the attachment until the response.
C17_OwnPrincipal ==
    \A w \in Workers :
        /\ \A i \in 1..Len(calls[w]) : calls[w][i].user = PrincipalOf(req[w].token.value)
        /\ pc[w] \in {"endpoint", "done"} /\ g_user[w] # NoUser =>
               g_user[w].id = PrincipalOf(req[w].token.value)

\* Two requests with different tokens in flight together, each having called
\* a handler.
C17_Witness ==
    /\ Routed("w1") /\ Routed("w2")
    /\ req["w1"].token.value # req["w2"].token.value
    /\ Len(calls["w1"]) = 1 /\ calls["w1"][1].user = 1
    /\ Len(calls["w2"]) = 1 /\ calls["w2"][1].user = 2

----------------------------------------------------------------------------
(* Tool-level failure *)

\* The handler called for the request of w did not do its work: its call
\* raised, or it returned its {"error": ...} value.
ToolFailed(w) ==
    /\ Len(calls[w]) = 1
    /\ calls[w][1].raised \/ calls[w][1].value = "error_value"

\* C18: whenever the handler of a tools/call on a registered tool fails (a
\* collaborator raises inside it, or library_type is neither 'calibre' nor
\* 'anx'), the result returned has isError true.
C18_FailureIsFlagged ==
    \A w \in Workers :
        (Routed(w) /\ MappingArguments(w) /\ ToolFailed(w)) =>
            /\ ToolResultShape(resp[w])
            /\ resp[w].result.isError

----------------------------------------------------------------------------
(* Requests without an id *)

\* C19: a well-formed request without an id member (a notification) is never
\* answered by a JSON-RPC envelope, whatever its method.
C19_NotificationsGetNoEnvelope ==
    \A w \in Workers :
        (Routed(w) /\ WellFormed(w) /\ Body(w).id = Absent) => resp[w].kind # "rpc"

----------------------------------------------------------------------------
(* generate_audiobook and the user attached to the request *)

MaxTasks == 2

AudioArgs == [k \in {"book_id", "library_type"} |->
                 IF k = "book_id" THEN J("int", "7") ELSE JStr("calibre")]

AudioBodies ==
    {SessionBody("ping", NoParams),
     SessionBody("tools/call", SessionCall("generate_audiobook", AudioArgs))}

ReceiveAudio(w) ==
    /\ pc[w] = "idle"
    /\ Cardinality(audiobook_tasks) < MaxTasks
    /\ \E t \in SessionTokens, b \in AudioBodies :
          req' = [req EXCEPT ![w] = [token |-> t, body |-> b]]
    /\ pc' = [pc EXCEPT ![w] = "token_lookup"]
    /\ UNCHANGED <<mcp_tokens, users, token_data, g_user, parsed, calls, resp>>
    /\ UNCHANGED <<g_kind, audiobook_tasks, history, remembered, schema_params, schema>>

\* The audiobook worker ends a pending task.
TaskEnds ==
    /\ \E r \in audiobook_tasks, st \in {"completed", "error"} :
          /\ r.status = "pending"
          /\ audiobook_tasks' = (audiobook_tasks \ {r}) \cup {[r EXCEPT !.status = st]}
    /\ UNCHANGED <<mcp_tokens, users, pc, req, token_data, g_user, parsed, calls, resp>>
    /\ UNCHANGED <<g_kind, history, remembered, schema_params, schema>>

NextAudio ==
    \/ \E w \in SeqWorkers : ReceiveAudio(w)
    \/ \E w \in SeqWorkers : TokenLookup(w)
    \/ \E w \in SeqWorkers : UserLookup(w)
    \/ \E w \in SeqWorkers : McpEndpoint(w)
    \/ \E w \in SeqWorkers : Respond(w)
    \/ TaskEnds

SpecAudio == Init /\ [][NextAudio]_vars

\* C20: from the attachment of the user by the gate until the response is
\* returned, handling the request (the tool call it makes included) leaves the
\* request's g.user the very object the gate attached.
C20_PrincipalImmutable ==
    [][\A w \in Workers :
          (EndpointStep(w) /\ g_kind[w] = "Row") =>
              g_kind'[w] = "Row" /\ g_user'[w] = g_user[w]]_vars

----------------------------------------------------------------------------
(* Concurrent generate_audiobook calls: the read of the latest task and the
   submission by the route are separate database accesses, and the steps of
   several requests interleave between them *)

\* The request of w is a tools/call of generate_audiobook with both arguments.
IsAudioCall(w) ==
    /\ MappingArguments(w)
    /\ Body(w).params.name = JStr("generate_audiobook")
    /\ DOMAIN RawArguments(w) = {"book_id", "library_type"}

\* The latest task of the caller of w for the book of its request.
LatestTaskFor(w) ==
    get_latest_task_for_book(g_user[w].id, RawArguments(w)["book_id"],
                             RawArguments(w)["library_type"])

\* mcp_endpoint for every request but a generate_audiobook call.
EndpointOther(w) == ~IsAudioCall(w) /\ McpEndpoint(w)

\* Lines 242-244: mcp_endpoint up to the test of the latest task; the handler
\* returns already_in_progress at once, or goes on to the submission.
AudioCheck(w) ==
    /\ pc[w] = "endpoint"
    /\ IsAudioCall(w)
    /\ IF InProgress(LatestTaskFor(w))
       THEN LET out == mcp_endpoint(req[w].body, g_user[w], "ok")
            IN  /\ Finish(w, out.resp)
                /\ calls' = [calls EXCEPT ![w] = out.calls]
                /\ parsed' = [parsed EXCEPT ![w] = TRUE]
       ELSE /\ pc' = [pc EXCEPT ![w] = "route"]
            /\ UNCHANGED <<resp, calls, parsed>>
    /\ UNCHANGED <<mcp_tokens, users, req, token_data, g_user, g_kind>>
    /\ UNCHANGED <<audiobook_tasks, history, remembered, schema_params, schema>>

\* Lines 246-278 and 507-518: the nested context, the route, and the response.
AudioRoute(w) ==
    /\ pc[w] = "route"
    /\ \E collab \in Collab, ctx \in AppContexts :
          LET outcome == SubmitJob(collab)
              req_id  == ReqId(Body(w).id)
              call    == [tool |-> "generate_audiobook", args |-> RawArguments(w),
                          user |-> g_user[w].id, raised |-> outcome.raised,
                          message |-> outcome.message, value |-> outcome.value,
                          nested |-> outcome.nested, task |-> outcome.task]
          IN  /\ Finish(w, IF outcome.raised
                           THEN ToolErrorResponse(req_id, "generate_audiobook", outcome.message)
                           ELSE ToolSuccessResponse(req_id, outcome.value))
              /\ calls' = [calls EXCEPT ![w] = <<call>>]
              /\ g_kind' = IF ctx = "shared"
                           THEN [g_kind EXCEPT ![w] = "SimpleNamespace"]
                           ELSE g_kind
              /\ audiobook_tasks' =
                     IF ~outcome.raised
                     THEN audiobook_tasks \cup
                          {[task_id |-> Cardinality(audiobook_tasks) + 1,
                            user_id |-> g_user[w].id,
                            book_id |-> RawArguments(w)["book_id"],
                            library_type |-> RawArguments(w)["library_type"],
                            status |-> "pending"]}
                     ELSE audiobook_tasks
    /\ parsed' = [parsed EXCEPT ![w] = TRUE]
    /\ UNCHANGED <<mcp_tokens, users, req, token_data, g_user>>
    /\ UNCHANGED <<history, remembered, schema_params, schema>>

NextRace ==
    \/ \E w \in Workers : ReceiveAudio(w)
    \/ \E w \in Workers : TokenLookup(w)
    \/ \E w \in Workers : UserLookup(w)
    \/ \E w \in Workers : EndpointOther(w)
    \/ \E w \in Workers : AudioCheck(w)
    \/ \E w \in Workers : AudioRoute(w)
    \/ \E w \in Workers : Respond(w)
    \/ TaskEnds

SpecRace == Init /\ [][NextRace]_vars

\* The step in which the request of w calls the submission route.
RouteStep(w) == pc[w] = "route" /\ pc'[w] = "done"

\* C21: under any interleaving of generate_audiobook calls, the submission
\* route is called for a request only while the caller's latest task for the
\* book is absent, failed or completed, so that no job is submitted while a
\* task for the same user and book is in progress.
C21_NoSubmitWhileInProgress ==
    [][\A w \in Workers : RouteStep(w) => ~InProgress(LatestTaskFor(w))]_vars

----------------------------------------------------------------------------
(* Reading the status of audiobook tasks *)

StatusBodies ==
    {SessionBody("tools/call", SessionCall("generate_audiobook",
                                           [AudioArgs EXCEPT !["library_type"] = JStr(l)])) :
        l \in {"calibre", "anx"}}
    \cup {SessionBody("tools/call", SessionCall("get_audiobook_generation_status",
                                                [k \in {"task_id"} |-> JStr(i)])) :
             i \in {"1", "2", "9"}}

ReceiveStatus(w) ==
    /\ pc[w] = "idle"
    /\ \E t \in SessionTokens, b \in StatusBodies :
          /\ b.params.name = JStr("generate_audiobook") =>
                 Cardinality(audiobook_tasks) < MaxTasks
          /\ req' = [req EXCEPT ![w] = [token |-> t, body |-> b]]
    /\ pc' = [pc EXCEPT ![w] = "token_lookup"]
    /\ UNCHANGED <<mcp_tokens, users, token_data, g_user, parsed, calls, resp>>
    /\ UNCHANGED <<g_kind, audiobook_tasks, history, remembered, schema_params, schema>>

NextStatus ==
    \/ \E w \in SeqWorkers : ReceiveStatus(w)
    \/ \E w \in SeqWorkers : TokenLookup(w)
    \/ \E w \in SeqWorkers : UserLookup(w)
    \/ \E w \in SeqWorkers : McpEndpoint(w)
    \/ \E w \in SeqWorkers : Respond(w)
    \/ TaskEnds

SpecStatus == Init /\ [][NextStatus]_vars

\* C22: whenever get_audiobook_generation_status returns a task record, for
\* any task id and any caller, the task's user_id is the id of the caller;
\* every other caller gets an error value and no task.
C22_TaskOnlyToOwner ==
    \A w \in Workers :
        \A i \in 1..Len(calls[w]) :
            calls[w][i].tool = "get_audiobook_generation_status" =>
                IF calls[w][i].task # NoTask
                THEN calls[w][i].task.user_id = calls[w][i].user
                ELSE calls[w][i].raised \/ calls[w][i].value = "error_value"

====
